---- MODULE Spec2Model ----
(***************************************************************************)
(* Market-attention collectors: the GDELT, RSS and Twitter pollers that    *)
(* write matched headlines into the shared DuckDB store (news_articles,    *)
(* ticker_mentions), the Reddit stream matcher, and the GDELT pager.       *)
(* Strings are sequences of one-character strings, so that lower(),        *)
(* upper(), `in` and the regular expression are computed character by      *)
(* character.                                                              *)
(***************************************************************************)
EXTENDS Integers, Sequences, FiniteSets, Bags, TLC

(***************************************************************************)
(* Characters and the string operations the collectors use.                *)
(***************************************************************************)
LOWERCASE ==
    <<"a","b","c","d","e","f","g","h","i","j","k","l","m","n","o","p","q","r","s","t","u","v","w","x","y","z">>

UPPERCASE ==
    <<"A","B","C","D","E","F","G","H","I","J","K","L","M","N","O","P","Q","R","S","T","U","V","W","X","Y","Z">>

DIGITS ==
    {"0","1","2","3","4","5","6","7","8","9"}

Range(f) ==
    {f[i] : i \in DOMAIN f}

\* str.lower() on one character: A-Z map to a-z, everything else is kept.
char_lower(c) ==
    IF \E i \in 1..26 : UPPERCASE[i] = c
    THEN LOWERCASE[CHOOSE i \in 1..26 : UPPERCASE[i] = c]
    ELSE c

\* str.upper() on one character.
char_upper(c) ==
    IF \E i \in 1..26 : LOWERCASE[i] = c
    THEN UPPERCASE[CHOOSE i \in 1..26 : LOWERCASE[i] = c]
    ELSE c

str_lower(s) ==
    [i \in 1..Len(s) |-> char_lower(s[i])]

str_upper(s) ==
    [i \in 1..Len(s) |-> char_upper(s[i])]

\* Python's `needle in hay` on strings: some window of hay equals needle.
str_in(needle, hay) ==
    \E i \in 1..(Len(hay) - Len(needle) + 1) :
        SubSeq(hay, i, i + Len(needle) - 1) = needle

(***************************************************************************)
(* The watch-lists, in dict order, one per notebook.                       *)
(***************************************************************************)
COMPANY_NAMES_GDELT ==
    << [name |-> <<"G","o","o","g","l","e">>, ticker |-> <<"G","O","O","G","L">>],
       [name |-> <<"A","p","p","l","e">>, ticker |-> <<"A","A","P","L">>],
       [name |-> <<"A","m","a","z","o","n">>, ticker |-> <<"A","M","Z","N">>],
       [name |-> <<"N","v","i","d","i","a">>, ticker |-> <<"N","V","D","A">>],
       [name |-> <<"M","i","c","r","o","s","o","f","t">>, ticker |-> <<"M","S","F","T">>],
       [name |-> <<"B","i","t","c","o","i","n">>, ticker |-> <<"B","T","C">>],
       [name |-> <<"R","i","p","p","l","e">>, ticker |-> <<"X","R","P">>] >>

COMPANY_NAMES_RSS ==
    << [name |-> <<"G","o","o","g","l","e">>, ticker |-> <<"G","O","O","G","L">>],
       [name |-> <<"A","p","p","l","e">>, ticker |-> <<"A","A","P","L">>],
       [name |-> <<"A","m","a","z","o","n">>, ticker |-> <<"A","M","Z","N">>],
       [name |-> <<"N","v","i","d","i","a">>, ticker |-> <<"N","V","D","A">>],
       [name |-> <<"M","i","c","r","o","s","o","f","t">>, ticker |-> <<"M","S","F","T">>],
       [name |-> <<"B","i","t","c","o","i","n">>, ticker |-> <<"B","T","C">>],
       [name |-> <<"X","R","P">>, ticker |-> <<"X","R","P">>] >>

COMPANY_NAMES_TWITTER ==
    << [name |-> <<"G","o","o","g","l","e">>, ticker |-> <<"G","O","O","G","L">>],
       [name |-> <<"A","p","p","l","e">>, ticker |-> <<"A","A","P","L">>],
       [name |-> <<"A","m","a","z","o","n">>, ticker |-> <<"A","M","Z","N">>],
       [name |-> <<"N","v","i","d","i","a">>, ticker |-> <<"N","V","D","A">>],
       [name |-> <<"M","i","c","r","o","s","o","f","t">>, ticker |-> <<"M","S","F","T">>],
       [name |-> <<"B","i","t","c","o","i","n">>, ticker |-> <<"B","T","C">>],
       [name |-> <<"R","i","p","p","l","e">>, ticker |-> <<"X","R","P">>] >>

\* The Reddit notebook tracks the symbols only.
TICKERS ==
    { <<"G","O","O","G","L">>,
      <<"A","A","P","L">>,
      <<"A","M","Z","N">>,
      <<"N","V","D","A">>,
      <<"M","S","F","T">>,
      <<"B","T","C">>,
      <<"X","R","P">> }

(***************************************************************************)
(* The matcher: the list comprehension of the three pollers.  The result   *)
(* is a list of tickers in watch-list order.                               *)
(***************************************************************************)
entry_matches_case_sensitive(e, title) ==
    \/ str_in(e.name, title)
    \/ str_in(e.ticker, title)

entry_matches(e, title) ==
    \/ str_in(str_lower(e.name), str_lower(title))
    \/ str_in(str_lower(e.ticker), str_lower(title))

mentions_first_hit(title, watchlist) ==
    LET hits == SelectSeq(watchlist, LAMBDA e : entry_matches(e, title))
    IN  IF hits = <<>> THEN <<>> ELSE <<hits[1].ticker>>

mentions_of(title, watchlist) ==
    LET hits == SelectSeq(watchlist, LAMBDA e : entry_matches(e, title))
    IN  [i \in 1..Len(hits) |-> hits[i].ticker]

(***************************************************************************)
(* The Reddit stream matcher: re.findall(r"\b[A-Z]{2,5}\b", text.upper())  *)
(* intersected with TICKERS.                                               *)
(***************************************************************************)
\* \w of Python's re on str: letters, digits and the underscore.
is_word_char(c) ==
    c \in Range(UPPERCASE) \cup Range(LOWERCASE) \cup DIGITS \cup {"_"}

\* \b before position i of s (i = Len(s) + 1 is the end of the string).
word_boundary(s, i) ==
    LET before == i > 1 /\ is_word_char(s[i - 1])
        after  == i <= Len(s) /\ is_word_char(s[i])
    IN  before # after

\* set(re.findall(r"\b[A-Z]{2,5}\b", s)): a match starts and ends at a word
\* boundary, so it is a whole word and matches never overlap.
re_findall(s) ==
    { SubSeq(s, i, j) : <<i, j>> \in
        { p \in (1..Len(s)) \X (1..Len(s)) :
            /\ p[2] - p[1] + 1 >= 2
            /\ p[2] - p[1] + 1 <= 5
            /\ \A k \in p[1]..p[2] : s[k] \in Range(UPPERCASE)
            /\ word_boundary(s, p[1])
            /\ word_boundary(s, p[2] + 1) } }

\* stream_posts: text = title + " " + selftext; matched = TICKERS & words.
post_text(title, selftext) ==
    title \o <<" ">> \o selftext

reddit_matched_no_upper(title, selftext) ==
    TICKERS \cap re_findall(post_text(title, selftext))

reddit_matched(title, selftext) ==
    TICKERS \cap re_findall(str_upper(post_text(title, selftext)))

(***************************************************************************)
(* Inputs of the matcher runs: texts built from at most MaxTokens tokens.  *)
(***************************************************************************)
MaxTokens ==
    2

Tokens ==
    { <<"A","p","p","l","e">>,
      <<"a","P","P","L","E">>,
      <<"B","i","t","c","o","i","n">>,
      <<"B","T","C">>,
      <<"b","t","c">>,
      <<"n","v","i","d","i","a">>,
      <<"X","R","P">>,
      <<"R","i","p","p","l","e">>,
      <<"B","i","t">>,
      <<" ">>,
      <<"$">>,
      <<"1">>,
      <<"s">>,
      <<"_">> }

\* A customised watch-list in which one tracked name ("Bit") is a substring
\* of another ("Bitcoin") and of a symbol.
WATCHLIST_OVERLAP ==
    << [name |-> <<"B","i","t">>, ticker |-> <<"B","I","T","O">>],
       [name |-> <<"B","i","t","c","o","i","n">>, ticker |-> <<"B","T","C">>],
       [name |-> <<"A","p","p","l","e">>, ticker |-> <<"A","A","P","L">>] >>

\* A customised watch-list that keeps both names the notebooks give XRP
\* (GDELT and Twitter: "Ripple", RSS: "XRP").
WATCHLIST_ALIAS ==
    << [name |-> <<"B","i","t","c","o","i","n">>, ticker |-> <<"B","T","C">>],
       [name |-> <<"R","i","p","p","l","e">>, ticker |-> <<"X","R","P">>],
       [name |-> <<"X","R","P">>, ticker |-> <<"X","R","P">>] >>

Watchlists ==
    {COMPANY_NAMES_GDELT, COMPANY_NAMES_RSS, COMPANY_NAMES_TWITTER, WATCHLIST_OVERLAP,
     WATCHLIST_ALIAS}

RECURSIVE Flatten(_)
Flatten(ts) ==
    IF ts = <<>> THEN <<>> ELSE Head(ts) \o Flatten(Tail(ts))

Texts ==
    { Flatten(ts) : ts \in UNION { [1..n -> Tokens] : n \in 0..MaxTokens } }

Bodies ==
    { <<>>, <<"b","t","c">>, <<"A","p","p","l","e"," ","x","r","p">> }

(***************************************************************************)
(* The store and the three save passes.                                    *)
(***************************************************************************)
VARIABLES
    news_articles,    \* table news_articles: rows [article_id, title, timestamp]
    ticker_mentions,  \* table ticker_mentions: a bag of rows [article_id, ticker]
    pc,               \* per writer: "idle", "loop", "mentions" or "crashed"
    left,             \* per writer: items of the current batch not yet taken
    cur,              \* per writer: the item of the current loop iteration
    mentions,         \* per writer: the local list `mentions`
    next_mention,     \* per writer: index of the next ticker of the inner loop
    taken,            \* items taken so far by all writers together
    n_inserted,       \* history, per article_id: INSERTs that succeeded
    n_duplicate,      \* history, per article_id: INSERTs that raised ConstraintException
    seen_by,          \* history, per article_id: the writers that tried to insert it
    expected,         \* history, per article_id: tickers matched by the insert that stored it
    pass_n,           \* history, per writer: INSERTs into news_articles tried in this pass
    pass_d,           \* history, per writer: of those, ids that were already stored
    pass_added,       \* history, per writer: rows news_articles grew by in this pass
    pass_ids,         \* history, per writer: ids this pass stored
    passes,           \* history, per writer: passes completed, counted up to MaxCycles
    count,            \* per writer: RSS poll_once's `count`, Twitter save_to_db's `added`
    skipped           \* history, per writer: why the last iteration was skipped, or "no"

VARIABLES
    m_title, m_body, m_watchlist,  \* matcher run: the inputs
    m_mentions,                    \* matcher run: result of the pollers' matcher
    m_matched,                     \* matcher run: result of the Reddit matcher
    m_done                         \* matcher run: which matchers have run

VARIABLES
    f_pc,             \* fetch_news: "idle", "paging" or "returned"
    page,             \* fetch_news: the local `page`
    all_articles,     \* fetch_news: the local `all_articles`
    rows,             \* fetch_news: `rows` of the last response
    status,           \* fetch_news: status of the last response
    requested         \* history: the pages requested in this cycle, in order

VARIABLES
    loop,             \* per poller: "start", "awaiting", "feeds", "hung", "save", "sleep", "backoff", "stopped"
    running,          \* the poller that holds the thread, or "none"
    feed,             \* poll_once: index into RSS_FEEDS of the next feed
    retried,          \* latest_tweets: the call in flight is the one of the except branch
    wait,             \* poll_twitter: the local `wait`, in seconds
    reset_in,         \* history: half-seconds from the 429 handler's utcnow() to the reset
    failure,          \* history, per poller: what the last response signalled, or "none"
    parsed,           \* history: the feeds this poll_once cycle has parsed
    raised,           \* history: the feed whose parse raised in this cycle, or 0
    observed,         \* per poller: what its loop got from the last fetch
    shutdown          \* the scheduler has raised the global shutdown signal

VARIABLES
    streamed,         \* the graph kept up to date from the stream of stored tuples
    snapshots,        \* the graphs build has returned, in order
    df,               \* the rows the last run of the sanity-check query returned
    last_event        \* history: id, matched tickers and fate of the last item saved

VARIABLES
    listing,          \* the subreddits' submissions, oldest first
    running_def,      \* the definition of stream_posts that runs, or NoDefinition
    stream,           \* "unsubscribed", "open" while stream_posts iterates, "closed"
    fetched,          \* the stream generator: submissions of the listing it has passed
    subscribed_at,    \* history: length of the listing when the stream was opened
    yielded,          \* history: the posts the stream has yielded, in order
    printed,          \* the posts stream_posts has printed, in order
    seen              \* stream_posts: the local `seen`

store_vars ==
    <<news_articles, ticker_mentions, pc, left, cur, mentions, next_mention, taken,
      n_inserted, n_duplicate, seen_by, expected,
      pass_n, pass_d, pass_added, pass_ids, passes, count, skipped>>

match_vars ==
    <<m_title, m_body, m_watchlist, m_mentions, m_matched, m_done>>

fetch_vars ==
    <<f_pc, page, all_articles, rows, status, requested>>

poll_vars ==
    <<loop, running, feed, retried, wait, reset_in, failure, parsed, raised,
      observed, shutdown>>

view_vars ==
    <<streamed, snapshots, df, last_event>>

stream_vars ==
    <<listing, running_def, stream, fetched, subscribed_at, yielded, printed, seen>>

vars ==
    <<store_vars, match_vars, fetch_vars, poll_vars, view_vars, stream_vars>>

Writers ==
    {"gdelt", "rss", "twitter"}

\* The history counts the passes (cycles) a writer has completed up to this
\* many; the loops themselves go on without end.
MaxCycles ==
    1

MaxBatch ==
    2

MaxItems ==
    3

MIN_FOLLOWERS ==
    10000

\* Headlines of the save passes: two tickers, one ticker, none.
TITLE_TWO ==
    <<"A","p","p","l","e"," ","n","v","d","a">>

TITLE_ONE ==
    <<"B","T","C"," ","u","p">>

TITLE_NONE ==
    <<"F","e","d">>

Titles ==
    {TITLE_TWO, TITLE_ONE, TITLE_NONE}

\* A headline naming six tracked companies.
TITLE_SIX ==
    <<"G","o","o","g","l","e"," ","A","p","p","l","e"," ","A","m","a","z","o","n"," ","N","v","i","d","i","a"," ","M","i","c","r","o","s","o","f","t"," ","B","i","t","c","o","i","n">>

\* A headline naming three tracked companies.
TITLE_THREE ==
    <<"A","p","p","l","e"," ","a","n","d"," ","N","v","i","d","i","a"," ","b","o","t","h"," ","r","a","l","l","y"," ","a","s"," ","B","i","t","c","o","i","n"," ","d","i","p","s">>

\* Article URLs (GDELT `url`, RSS `link`) and tweet ids.  The second URL is
\* the first with a tracking parameter: the same article, another text.
Urls ==
    {"u1", "u1?utm_source=rss"}

TweetIds ==
    {"t1"}

\* An optional field is <<>> when absent and <<v>> when present.
PublishTimes ==
    {<<>>, <<1>>}

IngestTimes ==
    {2}

\* Hours the host's local time is ahead of UTC.
UtcOffsets ==
    {-1, 0, 1}

Followers ==
    {<<>>, <<MIN_FOLLOWERS - 1>>, <<MIN_FOLLOWERS>>}

GdeltArticles ==
    [key : Urls, title : Titles, published : PublishTimes, followers : {<<>>}]

\* Feed entries; getattr(entry, "title", "") and getattr(entry, "link", "")
\* are empty for an entry that lacks them.
RssEntries ==
    [key : Urls, title : Titles, published : PublishTimes, followers : {<<>>}]
    \cup [key : {""}, title : {TITLE_TWO}, published : {<<1>>}, followers : {<<>>}]
    \cup [key : {"u1"}, title : {<<>>}, published : {<<1>>}, followers : {<<>>}]

Tweets ==
    [key : TweetIds, title : Titles, published : {<<1>>}, followers : Followers]

NoItem ==
    [key |-> "", title |-> <<>>, published |-> <<>>, followers |-> <<>>]

\* hashlib.sha256(text.encode()).hexdigest(): a digest of the text, taken to be
\* collision-free on the texts of the model.
hash_id(text) ==
    <<"sha256", text>>

ArticleIds ==
    { hash_id(k) : k \in Urls \cup TweetIds \cup {""} }

watchlist_of(w) ==
    CASE w = "gdelt" -> COMPANY_NAMES_GDELT
      [] w = "rss" -> COMPANY_NAMES_RSS
      [] w = "twitter" -> COMPANY_NAMES_TWITTER

\* The list `mentions` each writer computes for each headline of the model.
MentionsTable ==
    [w \in Writers |->
        [t \in Titles \cup {<<>>, TITLE_THREE, TITLE_SIX} |-> mentions_of(t, watchlist_of(w))]]

writer_mentions(w, title) ==
    MentionsTable[w][title]

(***************************************************************************)
(* DuckDB statements.  Every con.execute is one statement on an            *)
(* autocommit connection, so it is one atomic step.                        *)
(***************************************************************************)
pk_unchecked(article_id) ==
    FALSE

\* news_articles.article_id is declared TEXT PRIMARY KEY: an INSERT of a
\* stored id raises duckdb.ConstraintException and changes nothing.
pk_violation(article_id) ==
    \E r \in news_articles : r.article_id = article_id

insert_row_lost(table, row, dup) ==
    table

insert_or_replace(table, row, dup) ==
    { r \in table : r.article_id # row.article_id } \cup {row}

\* INSERT INTO news_articles VALUES (?, ?, ?): the row is added unless the
\* key is taken, in which case the statement raises and the table is as it was.
insert_row(table, row, dup) ==
    IF dup THEN table ELSE table \cup {row}

constraint_unhandled(w) ==
    "crashed"

\* Where a writer goes on ConstraintException: GDELT's `pass` falls through
\* to the mention loop, RSS returns from store_article, Twitter continues.
constraint_handler(w) ==
    CASE w = "gdelt" -> "mentions"
      [] w = "rss" -> "loop"
      [] w = "twitter" -> "loop"

no_mentions_ignored(ms) ==
    FALSE

\* `if not mentions`
no_mentions(ms) ==
    ms = <<>>

followers_count_or_threshold(tw) ==
    IF tw.followers = <<>> THEN MIN_FOLLOWERS ELSE tw.followers[1]

\* getattr(tw.user, "followers_count", 0)
followers_count(tw) ==
    IF tw.followers = <<>> THEN 0 ELSE tw.followers[1]

\* time.mktime(t): the epoch time of the struct_time t read as local time of
\* a host tz hours ahead of UTC.
mktime(t, tz) ==
    t - tz

\* The timestamp a writer stores.  GDELT parses seendate and Twitter parses
\* created_at, both as UTC.  RSS passes published_parsed, a UTC struct_time,
\* through time.mktime, or else takes the time of ingestion.
timestamp_of(w, it, now, tz) ==
    CASE it.published = <<>> -> now
      [] it.published # <<>> /\ w = "rss" -> mktime(it.published[1], tz)
      [] OTHER -> it.published[1]

\* What follows the duplicate: RSS store_article returns to poll_once, whose
\* next statement is `count += 1`; Twitter's `continue` jumps over `added += 1`;
\* GDELT keeps no counter.
counts_every_item(w) ==
    TRUE

counts_after_duplicate(w) ==
    w = "rss"

\* What follows the last mention row: RSS `count += 1`, Twitter `added += 1`.
counts_after_mentions(w) ==
    w \in {"rss", "twitter"}

\* The `continue` conditions in front of the INSERT.
skips(w, it) ==
    CASE w = "gdelt" ->
            \/ it.published = <<>>
            \/ no_mentions(writer_mentions(w, it.title))
      [] w = "rss" ->
            \/ it.title = <<>>
            \/ it.key = ""
            \/ no_mentions(writer_mentions(w, it.title))
      [] w = "twitter" ->
            \/ followers_count(it) < MIN_FOLLOWERS
            \/ no_mentions(writer_mentions(w, it.title))

\* Why the iteration is skipped: the first `continue` that applies.
skip_reason(w, it) ==
    CASE w = "gdelt" /\ it.published = <<>> ->
            IF no_mentions(writer_mentions(w, it.title))
            THEN "unpublished_no_mentions" ELSE "unpublished"
      [] w = "rss" /\ (it.title = <<>> \/ it.key = "") -> "no_title_or_link"
      [] w = "twitter" /\ followers_count(it) < MIN_FOLLOWERS -> "low_followers"
      [] OTHER -> "no_mentions"

\* One iteration that ends in `continue` before any statement.
Skip(w, it) ==
    /\ pc[w] = "loop"
    /\ left[w] > 0
    /\ skips(w, it)
    /\ left' = [left EXCEPT ![w] = @ - 1]
    /\ skipped' = [skipped EXCEPT ![w] = skip_reason(w, it)]
    /\ UNCHANGED <<news_articles, ticker_mentions, pc, cur, mentions, next_mention, taken,
                   n_inserted, n_duplicate, seen_by, expected,
                   pass_n, pass_d, pass_added, pass_ids, passes, count>>
    /\ UNCHANGED <<match_vars, fetch_vars, poll_vars, view_vars, stream_vars>>

\* INSERT INTO news_articles VALUES (?, ?, ?) inside try/except.
InsertArticle(w, it, now, tz) ==
    LET id  == hash_id(it.key)
        ms  == writer_mentions(w, it.title)
        dup == pk_violation(id)
        row == [article_id |-> id, title |-> it.title,
                timestamp |-> timestamp_of(w, it, now, tz)]
        goes == IF dup THEN constraint_handler(w) ELSE "mentions"
        stored == \E r \in news_articles : r.article_id = id
    IN  /\ pc[w] = "loop"
        /\ left[w] > 0
        /\ ~skips(w, it)
        /\ news_articles' = insert_row(news_articles, row, dup)
        /\ pc' = [pc EXCEPT ![w] = IF goes = "mentions" /\ ms = <<>> THEN "loop" ELSE goes]
        /\ cur' = [cur EXCEPT ![w] = it]
        /\ mentions' = [mentions EXCEPT ![w] = ms]
        /\ next_mention' = [next_mention EXCEPT ![w] = 1]
        /\ left' = [left EXCEPT ![w] = @ - 1]
        /\ n_inserted' = [n_inserted EXCEPT ![id] = IF dup THEN @ ELSE @ + 1]
        /\ n_duplicate' = [n_duplicate EXCEPT ![id] = IF dup THEN @ + 1 ELSE @]
        /\ seen_by' = [seen_by EXCEPT ![id] = @ \cup {w}]
        /\ expected' = IF dup THEN expected ELSE [expected EXCEPT ![id] = Range(ms)]
        /\ pass_n' = [pass_n EXCEPT ![w] = @ + 1]
        /\ pass_d' = [pass_d EXCEPT ![w] = IF stored THEN @ + 1 ELSE @]
        /\ pass_added' = [pass_added EXCEPT ![w] =
                            @ + Cardinality(news_articles') - Cardinality(news_articles)]
        /\ pass_ids' = [pass_ids EXCEPT ![w] =
                            IF news_articles' # news_articles THEN @ \cup {id} ELSE @]
        /\ skipped' = [skipped EXCEPT ![w] = "no"]
        /\ count' = [count EXCEPT ![w] =
                        IF dup /\ counts_after_duplicate(w) THEN @ + 1 ELSE @]
        /\ UNCHANGED <<ticker_mentions, taken, passes>>
        /\ UNCHANGED <<match_vars, fetch_vars, poll_vars, view_vars, stream_vars>>

\* INSERT INTO ticker_mentions VALUES (?, ?): one turn of `for ticker in mentions`.
InsertMention(w) ==
    LET row == [article_id |-> hash_id(cur[w].key),
                ticker |-> mentions[w][next_mention[w]]]
    IN  /\ pc[w] = "mentions"
        /\ ticker_mentions' = ticker_mentions (+) SetToBag({row})
        /\ IF next_mention[w] = Len(mentions[w])
           THEN /\ pc' = [pc EXCEPT ![w] = "loop"]
                /\ count' = [count EXCEPT ![w] =
                                IF counts_after_mentions(w) THEN @ + 1 ELSE @]
                /\ UNCHANGED next_mention
           ELSE /\ next_mention' = [next_mention EXCEPT ![w] = @ + 1]
                /\ UNCHANGED <<pc, count>>
        /\ UNCHANGED <<news_articles, left, cur, mentions, taken,
                       n_inserted, n_duplicate, seen_by, expected,
                       pass_n, pass_d, pass_added, pass_ids, passes, skipped>>
        /\ UNCHANGED <<match_vars, fetch_vars, poll_vars, view_vars, stream_vars>>

\* A save pass over n items begins: RSS `count = 0`, Twitter `added = 0`.
BeginPass(w, n) ==
    /\ pc[w] = "idle"
    /\ left' = [left EXCEPT ![w] = n]
    /\ taken' = taken + n
    /\ pc' = [pc EXCEPT ![w] = "loop"]
    /\ pass_n' = [pass_n EXCEPT ![w] = 0]
    /\ pass_d' = [pass_d EXCEPT ![w] = 0]
    /\ pass_added' = [pass_added EXCEPT ![w] = 0]
    /\ pass_ids' = [pass_ids EXCEPT ![w] = {}]
    /\ skipped' = [skipped EXCEPT ![w] = "no"]
    /\ count' = [count EXCEPT ![w] = 0]
    /\ UNCHANGED <<news_articles, ticker_mentions, cur, mentions, next_mention,
                   n_inserted, n_duplicate, seen_by, expected, passes>>

\* The poll loop hands a batch of n items to the save pass.
PassBegin(w) ==
    /\ \E n \in 1..MaxBatch :
        /\ taken + n <= MaxItems
        /\ BeginPass(w, n)
    /\ UNCHANGED <<match_vars, fetch_vars, poll_vars, view_vars, stream_vars>>

\* The for loop is exhausted: the save pass returns.
EndPass(w) ==
    /\ pc[w] = "loop"
    /\ left[w] = 0
    /\ pc' = [pc EXCEPT ![w] = "idle"]
    /\ passes' = [passes EXCEPT ![w] = IF @ < MaxCycles THEN @ + 1 ELSE @]
    /\ UNCHANGED <<news_articles, ticker_mentions, left, cur, mentions, next_mention,
                   taken, n_inserted, n_duplicate, seen_by, expected,
                   pass_n, pass_d, pass_added, pass_ids, count, skipped>>

\* The save pass returns to the poll loop.
PassEnd(w) ==
    /\ EndPass(w)
    /\ UNCHANGED <<match_vars, fetch_vars, poll_vars, view_vars, stream_vars>>

GdeltSkip ==
    \E art \in GdeltArticles : Skip("gdelt", art)

GdeltInsertArticle ==
    \E art \in GdeltArticles : InsertArticle("gdelt", art, 0, 0)

GdeltInsertMention ==
    InsertMention("gdelt")

RssSkip ==
    \E entry \in RssEntries : Skip("rss", entry)

RssInsertArticle ==
    \E entry \in RssEntries, now \in IngestTimes, tz \in UtcOffsets :
        InsertArticle("rss", entry, now, tz)

RssInsertMention ==
    InsertMention("rss")

TwitterSkip ==
    \E tw \in Tweets : Skip("twitter", tw)

TwitterInsertArticle ==
    \E tw \in Tweets : InsertArticle("twitter", tw, 0, 0)

TwitterInsertMention ==
    InsertMention("twitter")

SaveBegin ==
    \E w \in Writers : PassBegin(w)

SaveEnd ==
    \E w \in Writers : PassEnd(w)

StoreInit ==
    /\ news_articles = {}
    /\ ticker_mentions = EmptyBag
    /\ pc = [w \in Writers |-> "idle"]
    /\ left = [w \in Writers |-> 0]
    /\ cur = [w \in Writers |-> NoItem]
    /\ mentions = [w \in Writers |-> <<>>]
    /\ next_mention = [w \in Writers |-> 1]
    /\ taken = 0
    /\ n_inserted = [id \in ArticleIds |-> 0]
    /\ n_duplicate = [id \in ArticleIds |-> 0]
    /\ seen_by = [id \in ArticleIds |-> {}]
    /\ expected = [id \in ArticleIds |-> {}]
    /\ pass_n = [w \in Writers |-> 0]
    /\ pass_d = [w \in Writers |-> 0]
    /\ pass_added = [w \in Writers |-> 0]
    /\ pass_ids = [w \in Writers |-> {}]
    /\ passes = [w \in Writers |-> 0]
    /\ count = [w \in Writers |-> 0]
    /\ skipped = [w \in Writers |-> "no"]

MatchIdle ==
    /\ m_title = <<>>
    /\ m_body = <<>>
    /\ m_watchlist = <<>>
    /\ m_mentions = <<>>
    /\ m_matched = {}
    /\ m_done = {}

FetchIdle ==
    /\ f_pc = "idle"
    /\ page = 1
    /\ all_articles = <<>>
    /\ rows = <<>>
    /\ status = 0
    /\ requested = <<>>

mention_rows_dropped(article_id, ms) ==
    EmptyBag

\* `for ticker in mentions: INSERT INTO ticker_mentions VALUES (?, ?)` as one
\* step: the rows the loop adds, one for each element of the list.
mention_rows(article_id, ms) ==
    [r \in {[article_id |-> article_id, ticker |-> ms[i]] : i \in DOMAIN ms} |->
        Cardinality({i \in DOMAIN ms : ms[i] = r.ticker})]

\* The nodes of the attention graph: the tickers of the watch-list.
Nodes ==
    TICKERS

\* An edge is keyed by the set of its end points; a key of one ticker would
\* be a self-loop.
EdgeKeys ==
    {{a, b} : a \in Nodes, b \in Nodes}

\* The graph of no event.
EmptyGraph ==
    [edges |-> [k \in EdgeKeys |-> 0], volume |-> [t \in Nodes |-> 0]]

NoEvent ==
    [id |-> <<>>, title |-> <<>>, tickers |-> {}, inserted |-> FALSE]

\* Nothing has been built or queried.
ViewIdle ==
    /\ streamed = EmptyGraph
    /\ snapshots = <<>>
    /\ df = <<>>
    /\ last_event = NoEvent

\* The stand-in for "no definition of stream_posts is running".
NoDefinition ==
    [skip_existing |-> FALSE, max_results |-> 0, print_unmatched |-> FALSE]

\* No stream has been opened and the subreddits are empty.
StreamIdle ==
    /\ listing = <<>>
    /\ running_def = NoDefinition
    /\ stream = "unsubscribed"
    /\ fetched = 0
    /\ subscribed_at = 0
    /\ yielded = <<>>
    /\ printed = <<>>
    /\ seen = 0

\* No poll loop has been started.
PollIdle ==
    /\ loop = [w \in Writers |-> "start"]
    /\ running = "none"
    /\ feed = 1
    /\ retried = FALSE
    /\ wait = 0
    /\ reset_in = 0
    /\ failure = [w \in Writers |-> "none"]
    /\ parsed = {}
    /\ raised = 0
    /\ observed = [w \in Writers |-> "none"]
    /\ shutdown = FALSE

Init ==
    /\ StoreInit
    /\ MatchIdle
    /\ FetchIdle
    /\ PollIdle
    /\ ViewIdle
    /\ StreamIdle

Next ==
    \/ SaveBegin
    \/ GdeltSkip
    \/ GdeltInsertArticle
    \/ GdeltInsertMention
    \/ RssSkip
    \/ RssInsertArticle
    \/ RssInsertMention
    \/ TwitterSkip
    \/ TwitterInsertArticle
    \/ TwitterInsertMention
    \/ SaveEnd

Spec ==
    Init /\ [][Next]_vars

(***************************************************************************)
(* Matcher runs: a headline (and, for Reddit, a post body) and a           *)
(* watch-list are drawn, then each matcher is applied once.                *)
(***************************************************************************)
MatchInit ==
    /\ m_title \in Texts
    /\ m_body \in Bodies
    /\ m_watchlist \in Watchlists
    /\ m_mentions = <<>>
    /\ m_matched = {}
    /\ m_done = {}

\* The pollers' list comprehension over the watch-list.
MatchHeadline ==
    /\ "pollers" \notin m_done
    /\ m_mentions' = mentions_of(m_title, m_watchlist)
    /\ m_done' = m_done \cup {"pollers"}
    /\ UNCHANGED <<m_title, m_body, m_watchlist, m_matched>>
    /\ UNCHANGED <<store_vars, fetch_vars, poll_vars, view_vars, stream_vars>>

\* One iteration of stream_posts.
MatchPost ==
    /\ "reddit" \notin m_done
    /\ m_matched' = reddit_matched(m_title, m_body)
    /\ m_done' = m_done \cup {"reddit"}
    /\ UNCHANGED <<m_title, m_body, m_watchlist, m_mentions>>
    /\ UNCHANGED <<store_vars, fetch_vars, poll_vars, view_vars, stream_vars>>

InitMatch ==
    /\ StoreInit
    /\ MatchInit
    /\ FetchIdle
    /\ PollIdle
    /\ ViewIdle
    /\ StreamIdle

NextMatch ==
    \/ MatchHeadline
    \/ MatchPost

SpecMatch ==
    InitMatch /\ [][NextMatch]_vars

(***************************************************************************)
(* fetch_news: the GDELT pager.                                            *)
(***************************************************************************)
\* maxrecords=250 in GDELT_URL: the API returns at most 250 articles a page.
MAXRECORDS ==
    250

\* The literal of `if len(rows) <= 250: break`.
LAST_PAGE_LEN ==
    250

HTTP_OK ==
    200

\* Statuses a response can carry: success, rate limit, server error.
Statuses ==
    {HTTP_OK, 429, 500}

\* The articles of one response: n articles of page p.
page_rows(p, n) ==
    [i \in 1..n |-> [page |-> p, index |-> i]]

\* `if len(rows) <= 250: break`
last_page_reached(rs) ==
    Len(rs) <= LAST_PAGE_LEN

\* fetch_news is called: all_articles, page = [], 1.
FetchStart ==
    /\ f_pc \in {"idle", "returned"}
    /\ f_pc' = "paging"
    /\ page' = 1
    /\ all_articles' = <<>>
    /\ rows' = <<>>
    /\ status' = 0
    /\ requested' = <<>>
    /\ UNCHANGED <<store_vars, match_vars, poll_vars, view_vars, stream_vars>>

\* One turn of `while True`: request `page`, then break or go on.
FetchPage ==
    /\ f_pc = "paging"
    /\ \E st \in Statuses, n \in 0..MAXRECORDS :
        /\ status' = st
        /\ requested' = Append(requested,
              [page |-> page, status |-> st, n |-> IF st = HTTP_OK THEN n ELSE 0])
        /\ IF st # HTTP_OK
           THEN /\ n = 0
                /\ f_pc' = "returned"
                /\ UNCHANGED <<page, all_articles, rows>>
           ELSE /\ rows' = page_rows(page, n)
                /\ all_articles' = all_articles \o rows'
                /\ IF last_page_reached(rows')
                   THEN f_pc' = "returned" /\ UNCHANGED page
                   ELSE f_pc' = "paging" /\ page' = page + 1
    /\ UNCHANGED <<store_vars, match_vars, poll_vars, view_vars, stream_vars>>

InitFetch ==
    /\ StoreInit
    /\ MatchIdle
    /\ FetchIdle
    /\ PollIdle
    /\ ViewIdle
    /\ StreamIdle

NextFetch ==
    \/ FetchStart
    \/ FetchPage

SpecFetch ==
    InitFetch /\ [][NextFetch]_vars

(***************************************************************************)
(* The poll loops poll_gdelt, poll_rss and poll_twitter.  The collectors   *)
(* are started together (README: `python run.py`) and share one thread     *)
(* under a cooperative scheduler: a poller runs from one wait to the next, *)
(* and a wait gives the thread up only if it is awaited.                   *)
(***************************************************************************)
MaxFeeds ==
    2

\* Items the three poll loops fetch in all.
MaxPolled ==
    1

\* The literal of `max(1, ...)` in poll_twitter.
MIN_SLEEP ==
    1

\* The places where a poller waits: for a response, between two cycles, for
\* the rate-limit reset.
Waits ==
    {"awaiting", "sleep", "backoff"}

\* The scheduler runs a poller only when no other poller holds the thread.
scheduled(w) ==
    running \in {"none", w}

\* poll_gdelt and poll_twitter are coroutines whose waits are awaited
\* (`await asyncio.sleep`, `await fetch_news`, `await latest_tweets`);
\* poll_rss is a plain function that waits in time.sleep and feedparser.parse.
awaits(w) ==
    w \in {"gdelt", "twitter"}

\* Who holds the thread once poller w waits: nobody if the wait is awaited,
\* still w if the wait is a blocking call.
holder_at_wait(w) ==
    IF awaits(w) THEN "none" ELSE w

\* What a GDELT request can come to: a page of articles, a page without,
\* a status other than 200, a timeout of session.get, a body resp.json()
\* cannot decode.
GdeltOutcomes ==
    {"articles", "empty", "http_error", "timeout", "malformed"}

\* Where poll_gdelt goes on each outcome: fetch_news breaks on a status other
\* than 200 and returns what it has; it catches no exception, nor does
\* poll_gdelt.
gdelt_on(outcome) ==
    CASE outcome = "articles" -> "save"
      [] outcome \in {"empty", "http_error"} -> "sleep"
      [] OTHER -> "stopped"

\* What a Twitter search can come to: tweets, none, TooManyRequests,
\* errors.NotFound, errors.NotFound followed by a failing _get_guest_token,
\* an authorization error, a timeout, a server error.
TwitterOutcomes ==
    {"tweets", "empty", "rate_limit", "token_expired", "token_refresh_failed",
     "auth", "timeout", "http_error"}

search_errors_swallowed(outcome, retry) ==
    CASE outcome = "tweets" -> "save"
      [] outcome = "rate_limit" -> "backoff"
      [] OTHER -> "sleep"

twitter_on_rate_limit_uncaught(outcome, retry) ==
    CASE outcome = "tweets" -> "save"
      [] outcome = "empty" -> "sleep"
      [] outcome = "token_expired" /\ ~retry -> "awaiting"
      [] OTHER -> "stopped"

twitter_on_retry_always(outcome, retry) ==
    CASE outcome = "tweets" -> "save"
      [] outcome = "empty" -> "sleep"
      [] outcome = "rate_limit" -> "backoff"
      [] outcome = "token_expired" -> "awaiting"
      [] OTHER -> "stopped"

\* Where poll_twitter goes on each outcome: latest_tweets catches NotFound
\* once, refreshes the guest token and searches again; poll_twitter catches
\* TooManyRequests; every other exception ends the coroutine.
twitter_on(outcome, retry) ==
    CASE outcome = "tweets" -> "save"
      [] outcome = "empty" -> "sleep"
      [] outcome = "rate_limit" -> "backoff"
      [] outcome = "token_expired" /\ ~retry -> "awaiting"
      [] OTHER -> "stopped"

\* What the poll loop has in hand once the fetch is over: a list with
\* items, an empty list, the rate-limit exception it catches, or another
\* exception.  fetch_news returns what it has gathered after a status other
\* than 200.
seen_by_loop(w, outcome) ==
    CASE outcome \in {"articles", "tweets"} -> "items"
      [] outcome = "empty" -> "nothing"
      [] outcome = "http_error" /\ w = "gdelt" -> "nothing"
      [] outcome = "rate_limit" -> "rate_limit"
      [] OTHER -> "raised"

\* The scheduler's cancellation reaches a poller at an awaited wait.
cancelled(w) ==
    shutdown /\ awaits(w)

\* What the poller's history records for an outcome.
signal_of(outcome, retry) ==
    CASE outcome \in {"articles", "tweets", "empty"} -> "none"
      [] outcome = "token_expired" /\ retry -> "token_expired_again"
      [] OTHER -> outcome

\* Half-seconds from the handler's utcnow() to the reset time of the signal.
ResetIns ==
    {-2, 0, 1, 3}

\* int(x) of a number of seconds given in half-seconds: towards zero.
int_seconds(h) ==
    IF h >= 0 THEN h \div 2 ELSE -((-h) \div 2)

max(a, b) ==
    IF a >= b THEN a ELSE b

\* reset = datetime.fromtimestamp(e.rate_limit_reset) is local time, utcnow()
\* is UTC: their difference is the time to the reset plus the host's offset.
\* wait = max(1, int((reset - datetime.utcnow()).total_seconds()))
backoff_wait(r, tz) ==
    max(MIN_SLEEP, int_seconds(r + 2 * 3600 * tz))

\* poll_gdelt: connect (first time) or wake from the sleep, then fetch_news
\* sends its request and waits for the response.
GdeltRequest ==
    /\ loop["gdelt"] \in {"start", "sleep"}
    /\ scheduled("gdelt")
    /\ ~cancelled("gdelt")
    /\ loop' = [loop EXCEPT !["gdelt"] = "awaiting"]
    /\ running' = holder_at_wait("gdelt")
    /\ failure' = [failure EXCEPT !["gdelt"] = "none"]
    /\ observed' = [observed EXCEPT !["gdelt"] = "none"]
    /\ UNCHANGED <<feed, retried, wait, reset_in, parsed, raised, shutdown>>
    /\ UNCHANGED <<store_vars, match_vars, fetch_vars, view_vars, stream_vars>>

\* poll_gdelt: the request is over; save_to_db is entered if articles came.
GdeltResponse ==
    /\ loop["gdelt"] = "awaiting"
    /\ scheduled("gdelt")
    /\ ~cancelled("gdelt")
    /\ \E outcome \in GdeltOutcomes :
        /\ loop' = [loop EXCEPT !["gdelt"] = gdelt_on(outcome)]
        /\ failure' = [failure EXCEPT !["gdelt"] = signal_of(outcome, FALSE)]
        /\ observed' = [observed EXCEPT !["gdelt"] = seen_by_loop("gdelt", outcome)]
        /\ IF gdelt_on(outcome) = "save"
           THEN /\ \E n \in 1..MaxBatch :
                     /\ taken + n <= MaxPolled
                     /\ BeginPass("gdelt", n)
                /\ running' = "gdelt"
           ELSE /\ running' = "none"
                /\ UNCHANGED store_vars
    /\ UNCHANGED <<feed, retried, wait, reset_in, parsed, raised, shutdown>>
    /\ UNCHANGED <<match_vars, fetch_vars, view_vars, stream_vars>>

GdeltSaveSkip ==
    running = "gdelt" /\ GdeltSkip

GdeltSaveArticle ==
    running = "gdelt" /\ GdeltInsertArticle

GdeltSaveMention ==
    running = "gdelt" /\ GdeltInsertMention

\* poll_gdelt: save_to_db returns, then `await asyncio.sleep(sleep_seconds)`.
GdeltSaved ==
    /\ loop["gdelt"] = "save"
    /\ running = "gdelt"
    /\ EndPass("gdelt")
    /\ loop' = [loop EXCEPT !["gdelt"] = "sleep"]
    /\ running' = holder_at_wait("gdelt")
    /\ UNCHANGED <<feed, retried, wait, reset_in, failure, parsed, raised, observed, shutdown>>
    /\ UNCHANGED <<match_vars, fetch_vars, view_vars, stream_vars>>

\* poll_twitter: connect and `await authenticate()`, then the first search.
TwitterAuth ==
    /\ loop["twitter"] = "start"
    /\ scheduled("twitter")
    /\ ~cancelled("twitter")
    /\ \E ok \in BOOLEAN :
        /\ loop' = [loop EXCEPT !["twitter"] = IF ok THEN "awaiting" ELSE "stopped"]
        /\ failure' = [failure EXCEPT !["twitter"] = IF ok THEN "none" ELSE "auth"]
    /\ running' = "none"
    /\ retried' = FALSE
    /\ UNCHANGED <<feed, wait, reset_in, parsed, raised, observed, shutdown>>
    /\ UNCHANGED <<store_vars, match_vars, fetch_vars, view_vars, stream_vars>>

\* poll_twitter: `await latest_tweets(client)` is over.
TwitterResponse ==
    /\ loop["twitter"] = "awaiting"
    /\ scheduled("twitter")
    /\ ~cancelled("twitter")
    /\ \E outcome \in TwitterOutcomes :
        /\ outcome = "token_refresh_failed" => ~retried
        /\ loop' = [loop EXCEPT !["twitter"] = twitter_on(outcome, retried)]
        /\ failure' = [failure EXCEPT !["twitter"] = signal_of(outcome, retried)]
        /\ observed' = [observed EXCEPT !["twitter"] =
                            IF twitter_on(outcome, retried) = "awaiting" THEN "none"
                            ELSE seen_by_loop("twitter", outcome)]
        /\ retried' = (twitter_on(outcome, retried) = "awaiting")
        /\ IF twitter_on(outcome, retried) = "backoff"
           THEN \E r \in ResetIns, tz \in UtcOffsets :
                    /\ reset_in' = r
                    /\ wait' = backoff_wait(r, tz)
           ELSE UNCHANGED <<wait, reset_in>>
        /\ IF twitter_on(outcome, retried) = "save"
           THEN /\ \E n \in 1..MaxBatch :
                     /\ taken + n <= MaxPolled
                     /\ BeginPass("twitter", n)
                /\ running' = "twitter"
           ELSE /\ running' = "none"
                /\ UNCHANGED store_vars
    /\ UNCHANGED <<feed, parsed, raised, shutdown>>
    /\ UNCHANGED <<match_vars, fetch_vars, view_vars, stream_vars>>

TwitterSaveSkip ==
    running = "twitter" /\ TwitterSkip

TwitterSaveArticle ==
    running = "twitter" /\ TwitterInsertArticle

TwitterSaveMention ==
    running = "twitter" /\ TwitterInsertMention

\* poll_twitter: save_to_db returns, then `await asyncio.sleep(interval_seconds)`.
TwitterSaved ==
    /\ loop["twitter"] = "save"
    /\ running = "twitter"
    /\ EndPass("twitter")
    /\ loop' = [loop EXCEPT !["twitter"] = "sleep"]
    /\ running' = holder_at_wait("twitter")
    /\ UNCHANGED <<feed, retried, wait, reset_in, failure, parsed, raised, observed, shutdown>>
    /\ UNCHANGED <<match_vars, fetch_vars, view_vars, stream_vars>>

\* poll_twitter: asyncio.sleep(interval_seconds) or asyncio.sleep(wait) is
\* over, `while True` goes round and the next search is sent.
TwitterWake ==
    /\ loop["twitter"] \in {"sleep", "backoff"}
    /\ scheduled("twitter")
    /\ ~cancelled("twitter")
    /\ loop' = [loop EXCEPT !["twitter"] = "awaiting"]
    /\ running' = holder_at_wait("twitter")
    /\ wait' = 0
    /\ reset_in' = 0
    /\ failure' = [failure EXCEPT !["twitter"] = "none"]
    /\ observed' = [observed EXCEPT !["twitter"] = "none"]
    /\ UNCHANGED <<feed, retried, parsed, raised, shutdown>>
    /\ UNCHANGED <<store_vars, match_vars, fetch_vars, view_vars, stream_vars>>

\* poll_rss: connect (first time) or wake from time.sleep, then poll_once is
\* entered: `count = 0`, `for url in RSS_FEEDS`.
RssCycle ==
    /\ loop["rss"] \in {"start", "sleep"}
    /\ scheduled("rss")
    /\ BeginPass("rss", 0)
    /\ loop' = [loop EXCEPT !["rss"] = "feeds"]
    /\ running' = "rss"
    /\ feed' = 1
    /\ parsed' = {}
    /\ raised' = 0
    /\ failure' = [failure EXCEPT !["rss"] = "none"]
    /\ observed' = [observed EXCEPT !["rss"] = "none"]
    /\ UNCHANGED <<retried, wait, reset_in, shutdown>>
    /\ UNCHANGED <<match_vars, fetch_vars, view_vars, stream_vars>>

\* poll_once: feedparser.parse(url) for the next feed.  It returns the
\* feed's entries (none for a feed it could not read) or raises, and nothing
\* in poll_once or poll_rss catches what it raises.
RssParse ==
    /\ loop["rss"] = "feeds"
    /\ running = "rss"
    /\ pc["rss"] = "loop"
    /\ left["rss"] = 0
    /\ feed <= MaxFeeds
    /\ \/ \E n \in 0..MaxBatch :
            /\ taken + n <= MaxPolled
            /\ left' = [left EXCEPT !["rss"] = n]
            /\ taken' = taken + n
            /\ feed' = feed + 1
            /\ parsed' = parsed \cup {feed}
            /\ UNCHANGED <<pc, loop, running, failure, raised>>
       \/ /\ raised' = feed
          /\ failure' = [failure EXCEPT !["rss"] = "feed_error"]
          /\ loop' = [loop EXCEPT !["rss"] = "stopped"]
          /\ pc' = [pc EXCEPT !["rss"] = "crashed"]
          /\ running' = "none"
          /\ UNCHANGED <<left, taken, feed, parsed>>
    /\ UNCHANGED <<news_articles, ticker_mentions, cur, mentions, next_mention,
                   n_inserted, n_duplicate, seen_by, expected,
                   pass_n, pass_d, pass_added, pass_ids, passes, count, skipped>>
    /\ UNCHANGED <<retried, wait, reset_in, observed, shutdown>>
    /\ UNCHANGED <<match_vars, fetch_vars, view_vars, stream_vars>>

RssSaveSkip ==
    running = "rss" /\ RssSkip

RssSaveArticle ==
    running = "rss" /\ RssInsertArticle

RssSaveMention ==
    running = "rss" /\ RssInsertMention

\* poll_once returns count; poll_rss prints it and calls time.sleep.
RssCycleEnd ==
    /\ loop["rss"] = "feeds"
    /\ running = "rss"
    /\ feed > MaxFeeds
    /\ EndPass("rss")
    /\ loop' = [loop EXCEPT !["rss"] = "sleep"]
    /\ running' = holder_at_wait("rss")
    /\ observed' = [observed EXCEPT !["rss"] =
                        IF count["rss"] > 0 THEN "items" ELSE "nothing"]
    /\ UNCHANGED <<feed, retried, wait, reset_in, failure, parsed, raised, shutdown>>
    /\ UNCHANGED <<match_vars, fetch_vars, view_vars, stream_vars>>

\* poll_once: feedparser.parse(url) is given no timeout; on a server that
\* accepts the connection and never answers it does not return.
RssNoResponse ==
    /\ loop["rss"] = "feeds"
    /\ running = "rss"
    /\ pc["rss"] = "loop"
    /\ left["rss"] = 0
    /\ feed <= MaxFeeds
    /\ failure' = [failure EXCEPT !["rss"] = "no_response"]
    /\ loop' = [loop EXCEPT !["rss"] = "hung"]
    /\ UNCHANGED <<running, feed, retried, wait, reset_in, parsed, raised,
                   observed, shutdown>>
    /\ UNCHANGED <<store_vars, match_vars, fetch_vars, view_vars, stream_vars>>

\* The scheduler raises the global shutdown signal: it cancels its tasks.
Shutdown ==
    /\ ~shutdown
    /\ shutdown' = TRUE
    /\ UNCHANGED <<loop, running, feed, retried, wait, reset_in, failure, parsed,
                   raised, observed>>
    /\ UNCHANGED <<store_vars, match_vars, fetch_vars, view_vars, stream_vars>>

\* A cancelled coroutine is resumed at its await with CancelledError, which
\* neither it nor the functions it awaits catch: the coroutine ends.
Cancel(w) ==
    /\ cancelled(w)
    /\ loop[w] \in Waits \cup {"start"}
    /\ scheduled(w)
    /\ loop' = [loop EXCEPT ![w] = "stopped"]
    /\ failure' = [failure EXCEPT ![w] = "cancelled"]
    /\ running' = "none"
    /\ UNCHANGED <<feed, retried, wait, reset_in, parsed, raised, observed, shutdown>>
    /\ UNCHANGED <<store_vars, match_vars, fetch_vars, view_vars, stream_vars>>

\* poll_rss: `except KeyboardInterrupt`: the user interrupts the kernel while
\* poll_rss holds the thread; the cycle in hand is abandoned and poll_rss
\* prints and returns.
RssInterrupt ==
    /\ running = "rss"
    /\ loop["rss"] \in {"feeds", "hung", "sleep"}
    /\ loop' = [loop EXCEPT !["rss"] = "stopped"]
    /\ failure' = [failure EXCEPT !["rss"] = "interrupted"]
    /\ running' = "none"
    /\ pc' = [pc EXCEPT !["rss"] = IF @ = "idle" THEN "idle" ELSE "crashed"]
    /\ UNCHANGED <<news_articles, ticker_mentions, left, cur, mentions, next_mention,
                   taken, n_inserted, n_duplicate, seen_by, expected,
                   pass_n, pass_d, pass_added, pass_ids, passes, count, skipped>>
    /\ UNCHANGED <<feed, retried, wait, reset_in, parsed, raised, observed, shutdown>>
    /\ UNCHANGED <<match_vars, fetch_vars, view_vars, stream_vars>>

NextPoll ==
    \/ GdeltRequest
    \/ GdeltResponse
    \/ GdeltSaveSkip
    \/ GdeltSaveArticle
    \/ GdeltSaveMention
    \/ GdeltSaved
    \/ TwitterAuth
    \/ TwitterResponse
    \/ TwitterSaveSkip
    \/ TwitterSaveArticle
    \/ TwitterSaveMention
    \/ TwitterSaved
    \/ TwitterWake
    \/ RssCycle
    \/ RssParse
    \/ RssSaveSkip
    \/ RssSaveArticle
    \/ RssSaveMention
    \/ RssCycleEnd

SpecPoll ==
    Init /\ [][NextPoll]_vars

\* A poller that can take its next step takes it: the event loop resumes
\* every coroutine that is ready, and a plain function runs on.
PollFairness ==
    /\ WF_vars(GdeltRequest) /\ WF_vars(GdeltResponse) /\ WF_vars(GdeltSaveSkip)
    /\ WF_vars(GdeltSaveArticle) /\ WF_vars(GdeltSaveMention) /\ WF_vars(GdeltSaved)
    /\ WF_vars(TwitterAuth) /\ WF_vars(TwitterResponse) /\ WF_vars(TwitterSaveSkip)
    /\ WF_vars(TwitterSaveArticle) /\ WF_vars(TwitterSaveMention)
    /\ WF_vars(TwitterSaved) /\ WF_vars(TwitterWake)
    /\ WF_vars(RssCycle) /\ WF_vars(RssParse) /\ WF_vars(RssSaveSkip)
    /\ WF_vars(RssSaveArticle) /\ WF_vars(RssSaveMention) /\ WF_vars(RssCycleEnd)

SpecPollFair ==
    SpecPoll /\ PollFairness

(***************************************************************************)
(* The poll loops with what can end them from outside: a request that is   *)
(* never answered, the scheduler's shutdown, the user's interrupt.         *)
(***************************************************************************)
NextStop ==
    \/ NextPoll
    \/ RssNoResponse
    \/ Shutdown
    \/ \E w \in Writers : Cancel(w)
    \/ RssInterrupt

SpecStop ==
    Init /\ [][NextStop]_vars

(***************************************************************************)
(* The attention graph over the store.  Items are saved one loop iteration *)
(* at a time; the graph builder reads the two tables (batch) or takes the  *)
(* tuple of each stored event as it is stored (stream).                    *)
(***************************************************************************)
\* Items the graph runs save in all.
MaxStored ==
    2

\* Graphs the graph runs build.
MaxSnapshots ==
    2

GraphTitles ==
    {TITLE_SIX, TITLE_THREE, TITLE_ONE}

StoredTimes ==
    {<<1>>, <<2>>}

\* The items each writer is handed in the graph runs.
SavedItems(w) ==
    IF w = "twitter"
    THEN [key : TweetIds, title : GraphTitles, published : StoredTimes,
          followers : {<<MIN_FOLLOWERS>>}]
    ELSE [key : Urls, title : GraphTitles, published : StoredTimes, followers : {<<>>}]

\* Query windows [lo, hi) over the stored timestamps; the first holds them all.
AllTime ==
    [lo |-> 0, hi |-> 4]

Windows ==
    {AllTime, [lo |-> 1, hi |-> 2], [lo |-> 2, hi |-> 3]}

in_window(r, win) ==
    win.lo <= r.timestamp /\ r.timestamp < win.hi

\* One unit for the edge k of an event whose tickers are tks: k is an
\* unordered pair of two of them.
contribution(k, tks) ==
    IF Cardinality(k) = 2 /\ k \subseteq tks THEN 1 ELSE 0

\* build(mentions_in_window), in batch: the events of the window joined with
\* their mention rows; an edge weighs the events that mention both its ends,
\* a node's volume counts the events that mention it.
build(articles, mention_bag, win) ==
    LET evs == {r \in articles : in_window(r, win)}
        tks(r) == {m.ticker : m \in {x \in BagToSet(mention_bag) :
                                        x.article_id = r.article_id}}
    IN  [edges |-> [k \in EdgeKeys |->
                      Cardinality({r \in evs : contribution(k, tks(r)) = 1})],
         volume |-> [t \in Nodes |-> Cardinality({r \in evs : t \in tks(r)})]]

\* The streaming builder folds one stored event into the running graph.
add_event(g, tks) ==
    [edges |-> [k \in EdgeKeys |-> g.edges[k] + contribution(k, tks)],
     volume |-> [t \in Nodes |-> g.volume[t] + (IF t \in tks THEN 1 ELSE 0)]]

snapshots_rebuilt(snaps, g) ==
    [i \in 1..Len(snaps) |-> g] \o <<g>>

\* Each call of build returns a new graph beside the ones returned before.
snapshots_after(snaps, g) ==
    Append(snaps, g)

\* One iteration of a save pass as one step: the `continue` conditions, the
\* INSERT into news_articles inside try/except, what the writer does on
\* ConstraintException, the mention loop.  The stream builder is handed the
\* tuple of an event the store took.
StoreItem(w, it, now, tz) ==
    LET id  == hash_id(it.key)
        ms  == writer_mentions(w, it.title)
        dup == pk_violation(id)
        row == [article_id |-> id, title |-> it.title,
                timestamp |-> timestamp_of(w, it, now, tz)]
        to_mentions == ~dup \/ constraint_handler(w) = "mentions"
    IN  /\ taken < MaxStored
        /\ \A v \in Writers : pc[v] = "idle"
        /\ ~skips(w, it)
        /\ news_articles' = insert_row(news_articles, row, dup)
        /\ ticker_mentions' = IF to_mentions
                              THEN ticker_mentions (+) mention_rows(id, ms)
                              ELSE ticker_mentions
        /\ taken' = taken + 1
        /\ last_event' = [id |-> id, title |-> it.title, tickers |-> Range(ms),
                          inserted |-> ~dup]
        /\ streamed' = IF dup THEN streamed ELSE add_event(streamed, Range(ms))
        /\ UNCHANGED <<pc, left, cur, mentions, next_mention,
                       n_inserted, n_duplicate, seen_by, expected,
                       pass_n, pass_d, pass_added, pass_ids, passes, count, skipped>>
        /\ UNCHANGED <<snapshots, df>>
        /\ UNCHANGED <<match_vars, fetch_vars, poll_vars, stream_vars>>

GdeltStore ==
    \E art \in SavedItems("gdelt") : StoreItem("gdelt", art, 0, 0)

\* The entries carry published_parsed and the host's clock is UTC.
RssStore ==
    \E entry \in SavedItems("rss") : StoreItem("rss", entry, 0, 0)

TwitterStore ==
    \E tw \in SavedItems("twitter") : StoreItem("twitter", tw, 0, 0)

\* build is called for a window and returns its graph.
BuildGraph ==
    /\ Len(snapshots) < MaxSnapshots
    /\ \E win \in Windows :
        snapshots' = snapshots_after(snapshots, build(news_articles, ticker_mentions, win))
    /\ UNCHANGED <<streamed, df, last_event>>
    /\ UNCHANGED <<store_vars, match_vars, fetch_vars, poll_vars, stream_vars>>

NextGraph ==
    \/ GdeltStore
    \/ RssStore
    \/ TwitterStore
    \/ BuildGraph

SpecGraph ==
    Init /\ [][NextGraph]_vars

(***************************************************************************)
(* The sanity-check query of the Twitter notebook:                         *)
(*   SELECT title, timestamp, ticker FROM news_articles                    *)
(*   JOIN ticker_mentions ON article_id = article_id                       *)
(*   ORDER BY timestamp LIMIT 10                                           *)
(***************************************************************************)
LIMIT ==
    10

join_on_any(a, m) ==
    TRUE

\* ON article_id = article_id: the rows the notebook shows pair every title
\* with its own tickers, so the engine reads the two column names as the
\* two tables' columns.
join_on(a, m) ==
    a.article_id = m.article_id

join_pairs(articles, mention_bag) ==
    {p \in articles \X BagToSet(mention_bag) : join_on(p[1], p[2])}

\* SELECT title, timestamp, ticker
row_of(p) ==
    [title |-> p[1].title, timestamp |-> p[1].timestamp, ticker |-> p[2].ticker]

\* ORDER BY names the timestamp only: among rows of one timestamp the engine
\* is free.  The model follows two orders, by a rank of the joined rows
\* upwards and downwards.
TieBreaks ==
    {1, -1}

IdOrder ==
    <<hash_id("u1"), hash_id("u1?utm_source=rss"), hash_id("t1"), hash_id("")>>

index_in(seq, x) ==
    CHOOSE i \in DOMAIN seq : seq[i] = x

pair_rank(p) ==
    64 * index_in(IdOrder, p[1].article_id)
        + 8 * index_in(IdOrder, p[2].article_id)
        + CHOOSE i \in DOMAIN COMPANY_NAMES_GDELT :
              COMPANY_NAMES_GDELT[i].ticker = p[2].ticker

comes_first(p, q, tb) ==
    \/ p[1].timestamp < q[1].timestamp
    \/ /\ p[1].timestamp = q[1].timestamp
       /\ tb * pair_rank(p) <= tb * pair_rank(q)

RECURSIVE order_by_timestamp(_, _, _)
order_by_timestamp(P, mention_bag, tb) ==
    IF P = {} THEN <<>>
    ELSE LET p == CHOOSE x \in P : \A q \in P : comes_first(x, q, tb)
         IN  [i \in 1..CopiesIn(p[2], mention_bag) |-> row_of(p)]
                 \o order_by_timestamp(P \ {p}, mention_bag, tb)

\* The rows the query returns.
query(articles, mention_bag, tb) ==
    LET all == order_by_timestamp(join_pairs(articles, mention_bag), mention_bag, tb)
    IN  SubSeq(all, 1, IF Len(all) < LIMIT THEN Len(all) ELSE LIMIT)

\* The cell is run: con.execute(...).fetchdf().
RunQuery ==
    /\ \E tb \in TieBreaks : df' = query(news_articles, ticker_mentions, tb)
    /\ UNCHANGED <<streamed, snapshots, last_event>>
    /\ UNCHANGED <<store_vars, match_vars, fetch_vars, poll_vars, stream_vars>>

NextQuery ==
    \/ GdeltStore
    \/ RssStore
    \/ TwitterStore
    \/ RunQuery

SpecQuery ==
    Init /\ [][NextQuery]_vars

(***************************************************************************)
(* The Reddit stream.  stream_posts iterates subreddit.stream.submissions, *)
(* which first fetches the newest submissions and yields them oldest       *)
(* first, unless skip_existing makes it pass over that first batch, and    *)
(* then yields each later submission as it arrives.  The notebook defines  *)
(* stream_posts twice; the definition that runs fixes the mode.            *)
(***************************************************************************)
MaxPosts ==
    5

\* `max_results: int = 5`, and the call `await stream_posts(5)`.
MAX_RESULTS ==
    5

\* Submissions: a headline with a tracked symbol, one without.
Submissions ==
    {[title |-> TITLE_ONE, selftext |-> <<>>],
     [title |-> TITLE_NONE, selftext |-> <<>>]}

stream_posts_replaying ==
    [skip_existing |-> FALSE, max_results |-> 0, print_unmatched |-> FALSE]

\* The first definition: skip_existing=True, prints a post only `if matched`,
\* and iterates without end.
stream_posts_original ==
    [skip_existing |-> TRUE, max_results |-> 0, print_unmatched |-> FALSE]

\* The second definition: skip_existing=False, prints every post, and breaks
\* once `seen >= max_results`.
stream_posts_limited ==
    [skip_existing |-> FALSE, max_results |-> MAX_RESULTS, print_unmatched |-> TRUE]

StreamDefinitions ==
    {stream_posts_original, stream_posts_limited}

\* stream.submissions: how much of the listing the generator has passed once
\* its first batch is in.
first_batch_passed(skip, existing) ==
    IF skip THEN existing ELSE 0

\* Somebody submits a post to one of the subreddits.
Submit ==
    /\ Len(listing) < MaxPosts
    /\ \E s \in Submissions :
         listing' = Append(listing, [id |-> Len(listing) + 1,
                                     title |-> s.title, selftext |-> s.selftext])
    /\ UNCHANGED <<running_def, stream, fetched, subscribed_at, yielded, printed, seen>>
    /\ UNCHANGED <<store_vars, match_vars, fetch_vars, poll_vars, view_vars>>

\* One of the definitions of stream_posts is run: the client is set up and
\* the stream is opened.
StreamOpen ==
    /\ stream = "unsubscribed"
    /\ \E d \in StreamDefinitions :
         /\ running_def' = d
         /\ fetched' = first_batch_passed(d.skip_existing, Len(listing))
    /\ stream' = "open"
    /\ subscribed_at' = Len(listing)
    /\ UNCHANGED <<listing, yielded, printed, seen>>
    /\ UNCHANGED <<store_vars, match_vars, fetch_vars, poll_vars, view_vars>>

\* One turn of `async for post in subreddit.stream.submissions(...)`.
StreamPost ==
    /\ stream = "open"
    /\ fetched < Len(listing)
    /\ LET post == listing[fetched + 1]
           matched == reddit_matched(post.title, post.selftext)
       IN  /\ fetched' = fetched + 1
           /\ yielded' = Append(yielded, post)
           /\ printed' = IF matched # {} \/ running_def.print_unmatched
                         THEN Append(printed, post)
                         ELSE printed
           /\ IF running_def.max_results > 0
              THEN /\ seen' = seen + 1
                   /\ stream' = IF seen + 1 >= running_def.max_results
                                THEN "closed"
                                ELSE "open"
              ELSE UNCHANGED <<seen, stream>>
    /\ UNCHANGED <<listing, running_def, subscribed_at>>
    /\ UNCHANGED <<store_vars, match_vars, fetch_vars, poll_vars, view_vars>>

NextStream ==
    \/ Submit
    \/ StreamOpen
    \/ StreamPost

SpecStream ==
    Init /\ [][NextStream]_vars

(***************************************************************************)
(* Properties.                                                             *)
(***************************************************************************)
AllTickers ==
    { e.ticker : e \in Range(COMPANY_NAMES_GDELT) \cup Range(COMPANY_NAMES_RSS)
                        \cup Range(COMPANY_NAMES_TWITTER) }

event_rows(id) ==
    { r \in news_articles : r.article_id = id }

mention_copies(id, tk) ==
    CopiesIn([article_id |-> id, ticker |-> tk], ticker_mentions)

\* Two characters are the same letter up to case.
same_letter(a, b) ==
    \/ a = b
    \/ \E j \in 1..26 : {a, b} = {LOWERCASE[j], UPPERCASE[j]}

\* needle occurs in hay at offset i, compared letter by letter up to case.
occurs_at(needle, hay, i) ==
    /\ i + Len(needle) <= Len(hay)
    /\ \A k \in 1..Len(needle) : same_letter(hay[i + k], needle[k])

occurs_ci(needle, hay) ==
    \E i \in 0..Len(hay) : occurs_at(needle, hay, i)

\* needle occurs in hay as a whole word: no letter, digit or underscore
\* touches it on either side.
occurs_as_word(needle, hay) ==
    \E i \in 0..Len(hay) :
        /\ occurs_at(needle, hay, i)
        /\ i = 0 \/ ~is_word_char(hay[i])
        /\ i + Len(needle) = Len(hay) \/ ~is_word_char(hay[i + Len(needle) + 1])

\* C1: every id that a save pass has tried to insert, any number of times,
\* has exactly one row in news_articles and at most one ticker_mentions row
\* for each (article_id, ticker) pair.
C1_DedupInvariant ==
    \A id \in ArticleIds :
        n_inserted[id] + n_duplicate[id] >= 1 =>
            /\ Cardinality(event_rows(id)) = 1
            /\ \A tk \in AllTickers : mention_copies(id, tk) <= 1

\* No save pass is ended by a duplicate; the rows a pass has added to
\* news_articles number the INSERTs it tried minus those whose id was already
\* stored; once it has returned, every row it added has all its mention rows.
C2_PassCounts ==
    \A w \in Writers :
        /\ pc[w] # "crashed"
        /\ pass_added[w] = pass_n[w] - pass_d[w]
        /\ Cardinality(pass_ids[w]) = pass_added[w]
        /\ pc[w] = "idle" =>
              \A id \in pass_ids[w] :
                  /\ Cardinality(event_rows(id)) = 1
                  /\ \A tk \in expected[id] : mention_copies(id, tk) >= 1

\* The INSERT of a stored id changes neither table and is counted as a
\* duplicate; the RSS and Twitter passes then go straight on to the next item.
C2_DuplicateStep ==
    \A w \in Writers :
        pass_d'[w] = pass_d[w] + 1 =>
            /\ news_articles' = news_articles
            /\ ticker_mentions' = ticker_mentions
            /\ \E id \in ArticleIds : n_duplicate'[id] = n_duplicate[id] + 1
            /\ n_inserted' = n_inserted
            /\ w \in {"rss", "twitter"} => pc'[w] = "loop"

\* C2: inserting an event whose id is already stored leaves both tables
\* unchanged and is absorbed as a duplicate instead of failing the pass: a
\* pass over N matched items of which d carry stored ids completes and adds
\* exactly N - d event rows, each together with its mention rows.
C2_DuplicateAbsorbed ==
    []C2_PassCounts /\ [][C2_DuplicateStep]_vars

\* A pass over two matched items, one of them already stored, has returned
\* having added one row.
C2_Witness ==
    \E w \in {"rss", "twitter"} :
        /\ pc[w] = "idle"
        /\ passes[w] >= 1
        /\ pass_n[w] = 2
        /\ pass_d[w] = 1
        /\ pass_added[w] = 1

\* C3: of all the INSERTs of one id, by whichever writers and in whatever
\* interleaving, exactly one succeeds, every other one sees the duplicate,
\* and the table holds exactly one row for the id.
C3_OneInsertWins ==
    \A id \in ArticleIds :
        /\ n_inserted[id] <= 1
        /\ n_inserted[id] + n_duplicate[id] >= 1 =>
              /\ n_inserted[id] = 1
              /\ Cardinality(event_rows(id)) = 1

\* One writer has stored the id and not yet written a mention row; in the
\* meantime another writer's INSERT of the same id was a duplicate.
C3_Witness ==
    \E w1 \in Writers, w2 \in Writers :
        /\ w1 # w2
        /\ pc[w1] = "mentions"
        /\ next_mention[w1] = 1
        /\ hash_id(cur[w1].key) \in pass_ids[w1]
        /\ cur[w2].key = cur[w1].key
        /\ pass_d[w2] >= 1
        /\ w2 \in seen_by[hash_id(cur[w1].key)]
        /\ n_duplicate[hash_id(cur[w1].key)] = 1
        /\ mention_copies(hash_id(cur[w1].key), mentions[w1][1]) <= 1

\* C4: no row of news_articles is visible without all the ticker_mentions
\* rows of the item that stored it.
C4_PerEventAtomicity ==
    \A r \in news_articles :
        \A tk \in expected[r.article_id] : mention_copies(r.article_id, tk) >= 1

\* C5: an id that two different writers have tried to insert has at most
\* one ticker_mentions row for each ticker.
C5_NoDuplicateMentions ==
    \A id \in ArticleIds :
        Cardinality(seen_by[id]) >= 2 =>
            \A tk \in AllTickers : mention_copies(id, tk) <= 1

\* No stored row carries a headline that matches no watch-list ticker, and
\* no mention row exists for an id without a stored row.
C6_NoUnmatchedRow ==
    /\ \A r \in news_articles :
          \E w \in Writers : writer_mentions(w, r.title) # <<>>
    /\ \A m \in BagToSet(ticker_mentions) : event_rows(m.article_id) # {}

\* The iteration that skips an item with an empty match changes neither table.
C6_SkipStep ==
    \A w \in Writers :
        (left'[w] = left[w] - 1 /\ skipped'[w] = "no_mentions") =>
            /\ news_articles' = news_articles
            /\ ticker_mentions' = ticker_mentions

\* C6: an item whose headline matches no watch-list ticker is skipped: it
\* adds no row to news_articles and none to ticker_mentions, so no stored
\* event is without a matched ticker.
C6_EmptyMatchSkip ==
    []C6_NoUnmatchedRow /\ [][C6_SkipStep]_vars

\* Each of the three pollers has just skipped an item with an empty match.
C6_Witness ==
    /\ \A w \in Writers : skipped[w] = "no_mentions"
    /\ \A w \in Writers : left[w] = 0

\* C7: the pollers' matcher returns exactly the tickers of the watch-list
\* entries whose name or symbol occurs in the headline up to case.
C7_MatcherExact ==
    "pollers" \in m_done =>
        Range(m_mentions) =
            { e.ticker : e \in { x \in Range(m_watchlist) :
                                   \/ occurs_ci(x.name, m_title)
                                   \/ occurs_ci(x.ticker, m_title) } }

\* A headline in other case than the watch-list's that holds a name which
\* contains another tracked name: both tickers are reported.
C7_Witness ==
    /\ "pollers" \in m_done
    /\ m_watchlist = WATCHLIST_OVERLAP
    /\ m_title = <<"a","P","P","L","E","B","i","t","c","o","i","n">>
    /\ Range(m_mentions) = { <<"B","I","T","O">>, <<"B","T","C">>, <<"A","A","P","L">> }

\* C8 as claimed: every watch-list entry whose name or symbol occurs in the
\* post text up to case is in the Reddit adapter's matched set.
C8_RedditFollowsContract ==
    "reddit" \in m_done =>
        \A e \in Range(COMPANY_NAMES_GDELT) :
            (\/ occurs_ci(e.name, post_text(m_title, m_body))
             \/ occurs_ci(e.ticker, post_text(m_title, m_body)))
                => e.ticker \in m_matched

\* C8 amended: the Reddit adapter matches exactly the ticker symbols that
\* occur in the post text, up to case, as a whole word.
C8_RedditWholeWordSymbols ==
    "reddit" \in m_done =>
        m_matched = { tk \in TICKERS : occurs_as_word(tk, post_text(m_title, m_body)) }

\* A post that names Bitcoin and Apple and holds the word xrp: only XRP is
\* matched.
C8_Witness ==
    /\ "reddit" \in m_done
    /\ m_title = <<"B","i","t","c","o","i","n">>
    /\ m_body = <<"A","p","p","l","e"," ","x","r","p">>
    /\ m_matched = { <<"X","R","P">> }

\* C10: in a cycle that has returned, a page was followed by a request for
\* the next page exactly if it came back full (200 with MAXRECORDS rows).
C10_PagingRule ==
    f_pc = "returned" =>
        \A i \in 1..Len(requested) :
            (requested[i].status = HTTP_OK /\ requested[i].n = MAXRECORDS)
                <=> i < Len(requested)

\* The post of the Twitter pass's latest INSERT carries a follower count of
\* at least the threshold.
C12_InsertsAboveThreshold ==
    cur["twitter"] # NoItem =>
        /\ cur["twitter"].followers # <<>>
        /\ cur["twitter"].followers[1] >= MIN_FOLLOWERS

\* The iteration that drops a post for its follower count changes neither
\* table and tries no INSERT.
C12_FilterStep ==
    (left'["twitter"] = left["twitter"] - 1 /\ skipped'["twitter"] = "low_followers") =>
        /\ news_articles' = news_articles
        /\ ticker_mentions' = ticker_mentions
        /\ pass_n' = pass_n

\* C12: the microblog adapter never writes an event row or a mention row for
\* a post whose author has fewer followers than the threshold or no follower
\* count; the post is dropped before any INSERT, and a post with exactly the
\* threshold is not dropped.
C12_MinimumInfluence ==
    []C12_InsertsAboveThreshold /\ [][C12_FilterStep]_vars

\* A post with exactly MIN_FOLLOWERS followers has been stored with its
\* mention rows, and the next post of the pass was dropped by the filter.
C12_Witness ==
    /\ cur["twitter"].followers = <<MIN_FOLLOWERS>>
    /\ hash_id(cur["twitter"].key) \in pass_ids["twitter"]
    /\ pc["twitter"] = "loop"
    /\ skipped["twitter"] = "low_followers"
    /\ \E r \in news_articles : r.article_id = hash_id(cur["twitter"].key)

\* C17: a matched item is stored with the time of its source metadata when
\* it has one and with the time of ingestion when it has none, and no matched
\* item is dropped for lacking a publish time.
C17_EventTimestamp ==
    /\ \A w \in Writers : skipped[w] # "unpublished"
    /\ \A w \in Writers :
          (pc[w] = "mentions" /\ n_duplicate[hash_id(cur[w].key)] = 0) =>
              \A r \in event_rows(hash_id(cur[w].key)) :
                  IF cur[w].published # <<>>
                  THEN r.timestamp = cur[w].published[1]
                  ELSE r.timestamp \in IngestTimes

\* The URL an article URL stands for once its tracking parameter is removed.
canonical_url(u) ==
    IF u = "u1?utm_source=rss" THEN "u1" ELSE u

\* C18: two items whose URLs have the same canonical form get the same id
\* and are stored as one event row.
C18_CanonicalDedup ==
    \A r1 \in news_articles, r2 \in news_articles :
        canonical_url(r1.article_id[2]) = canonical_url(r2.article_id[2]) => r1 = r2

\* C19: no step changes or removes a stored event row, whatever the title
\* and timestamp of a later item with its id, and no step removes a mention
\* row: both tables only grow.
C19_AppendOnly ==
    [][/\ news_articles \subseteq news_articles'
       /\ \A r \in news_articles :
             { q \in news_articles' : q.article_id = r.article_id } = {r}
       /\ ticker_mentions \sqsubseteq ticker_mentions']_vars

\* A later item with a stored id and another title has been through its
\* INSERT, and the stored row still carries the first title.
C19_Witness ==
    \E w \in Writers :
        /\ cur[w] # NoItem
        /\ n_duplicate[hash_id(cur[w].key)] >= 1
        /\ \E r \in event_rows(hash_id(cur[w].key)) : r.title # cur[w].title

\* C20: the value poll_once returns is the number of event rows the cycle
\* added to the store.
C20_ReturnsRowsAdded ==
    (pc["rss"] = "idle" /\ passes["rss"] >= 1) => count["rss"] = pass_added["rss"]

\* C11: a poll_once cycle in which the parse of one feed raised has parsed
\* every other feed by the time it is over, wherever the failing feed stands
\* in the list, and the poller goes on to its sleep.
C11_FeedIsolation ==
    (raised # 0 /\ loop["rss"] \in {"sleep", "stopped"}) =>
        /\ parsed = (1..MaxFeeds) \ {raised}
        /\ loop["rss"] = "sleep"

\* C13: a rate-limit signal leaves the Twitter loop running, and the sleep
\* it starts lasts at least the minimum and at least until the reset time,
\* so that the next search is not sent before the reset.
C13_RateLimitBackoff ==
    failure["twitter"] = "rate_limit" =>
        /\ loop["twitter"] = "backoff"
        /\ wait >= MIN_SLEEP
        /\ 2 * wait >= reset_in

\* C14: a poller that waits (for a response, for the rate-limit reset, or
\* between two cycles) does not hold the thread, so its wait keeps no other
\* poller from being scheduled.
C14_AdapterIndependence ==
    \A w \in Writers :
        loop[w] \in Waits => running # w

\* C15: after a request that failed transiently (timeout, status other than
\* 200, undecodable body) the poller's loop is still running.
C15_BadCycleSurvived ==
    \A w \in Writers :
        failure[w] \in {"timeout", "http_error", "malformed"} => loop[w] # "stopped"

\* C16 as claimed: every credential failure, an expired guest token
\* included, stops the Twitter poller.
C16_EveryAuthFailureFatal ==
    failure["twitter"] \in {"auth", "token_expired", "token_expired_again",
                            "token_refresh_failed"}
        => loop["twitter"] = "stopped"

\* A credential failure other than a first expired guest token has stopped
\* the Twitter poller; a stopped poller is outside its save pass and does
\* not hold the thread.
C16_FatalForTwitter ==
    /\ failure["twitter"] \in {"auth", "token_expired_again", "token_refresh_failed"}
          => loop["twitter"] = "stopped"
    /\ loop["twitter"] = "stopped" =>
          /\ pc["twitter"] = "idle"
          /\ running # "twitter"

\* The step that stops the Twitter poller changes no other poller's place
\* and leaves the thread free; once stopped the poller stays stopped and
\* its pass writes nothing.
C16_OthersUnaffected ==
    /\ (loop["twitter"] # "stopped" /\ loop'["twitter"] = "stopped") =>
          /\ running' = "none"
          /\ \A v \in Writers \ {"twitter"} : loop'[v] = loop[v] /\ pc'[v] = pc[v]
          /\ news_articles' = news_articles
          /\ ticker_mentions' = ticker_mentions
    /\ loop["twitter"] = "stopped" =>
          /\ loop'["twitter"] = "stopped"
          /\ pass_n'["twitter"] = pass_n["twitter"]
          /\ cur'["twitter"] = cur["twitter"]
          /\ next_mention'["twitter"] = next_mention["twitter"]

\* C16 amended: a credential failure of the Twitter poller, other than a
\* first expired guest token which latest_tweets refreshes, ends that
\* poller's run only: it stops, writes nothing further, and no other poller
\* is touched.
C16_AuthFailureFatalForRunOnly ==
    []C16_FatalForTwitter /\ [][C16_OthersUnaffected]_vars

\* The Twitter poller has stopped on an expired guest token that the retry
\* met again, after having stored a tweet; the GDELT poller has since sent a
\* request.
C16_Witness ==
    /\ loop["twitter"] = "stopped"
    /\ failure["twitter"] = "token_expired_again"
    /\ passes["twitter"] >= 1
    /\ loop["gdelt"] = "awaiting"

\* The tickers the scenario headline names.
AAPL_NVDA_BTC ==
    { <<"A","A","P","L">>, <<"N","V","D","A">>, <<"B","T","C">> }

\* A step that stores a new event.
stores_event ==
    taken' = taken + 1 /\ last_event'.inserted

\* C21: storing an event with k >= 2 matched tickers raises the weight of
\* each of the k(k-1)/2 pairs of its tickers by exactly one in the graph
\* built from the store, changes no other edge and no self-loop; the
\* scenario headline matches AAPL, NVDA and BTC, and stored into an empty
\* store it yields exactly three edges of weight 1.
C21_TriangleExpansion ==
    [][ LET M == last_event'.tickers
            n == Cardinality(M)
            before == build(news_articles, ticker_mentions, AllTime)
            after == build(news_articles', ticker_mentions', AllTime)
            raised_keys == {k \in EdgeKeys : after.edges[k] # before.edges[k]}
        IN  /\ (stores_event /\ n >= 2) =>
                  /\ \A k \in EdgeKeys :
                        after.edges[k] = before.edges[k] +
                            (IF Cardinality(k) = 2 /\ k \subseteq M THEN 1 ELSE 0)
                  /\ 2 * Cardinality(raised_keys) = n * (n - 1)
                  /\ \A t \in Nodes : after.edges[{t}] = 0
            /\ (stores_event /\ last_event'.title = TITLE_THREE) =>
                  /\ M = AAPL_NVDA_BTC
                  /\ news_articles = {} =>
                        /\ Cardinality({k \in EdgeKeys : after.edges[k] = 1}) = 3
                        /\ Cardinality({k \in EdgeKeys : after.edges[k] = 0}) =
                              Cardinality(EdgeKeys) - 3
      ]_vars

\* The scenario headline is the only event of the store and its three edges
\* weigh 1.
C21_Witness ==
    /\ last_event.inserted
    /\ last_event.title = TITLE_THREE
    /\ Cardinality(news_articles) = 1
    /\ \A k \in EdgeKeys :
          build(news_articles, ticker_mentions, AllTime).edges[k] =
              (IF Cardinality(k) = 2 /\ k \subseteq AAPL_NVDA_BTC THEN 1 ELSE 0)

\* The nodes of every graph built, returned or kept are the watch-list.
C22_NodesFixed ==
    /\ DOMAIN streamed.volume = Nodes
    /\ DOMAIN build(news_articles, ticker_mentions, AllTime).volume = Nodes
    /\ \A i \in 1..Len(snapshots) : DOMAIN snapshots[i].volume = Nodes

\* Storing an event with one matched ticker leaves every edge weight of the
\* graph built from the store as it was and adds one to that ticker's volume
\* and to no other.
C22_SingleTickerStep ==
    LET M == last_event'.tickers
        before == build(news_articles, ticker_mentions, AllTime)
        after == build(news_articles', ticker_mentions', AllTime)
    IN  (stores_event /\ Cardinality(M) = 1) =>
            /\ after.edges = before.edges
            /\ \A t \in Nodes :
                  after.volume[t] = before.volume[t] + (IF t \in M THEN 1 ELSE 0)

\* C22: an event with exactly one matched ticker changes no edge weight but
\* adds one to that ticker's node volume, and the node set is the watch-list
\* whatever is built.
C22_SingleTickerVolume ==
    []C22_NodesFixed /\ [][C22_SingleTickerStep]_vars

\* A one-ticker headline has been stored beside an event that has edges.
C22_Witness ==
    /\ last_event.inserted
    /\ last_event.title = TITLE_ONE
    /\ Cardinality(news_articles) = 2
    /\ build(news_articles, ticker_mentions, AllTime).volume[<<"B","T","C">>] = 2
    /\ \E k \in EdgeKeys : build(news_articles, ticker_mentions, AllTime).edges[k] = 1

\* C23: the graph kept up to date from the stream of stored tuples equals
\* the graph built in batch from the store, whatever the order of arrival.
C23_BatchStreamEquivalence ==
    streamed = build(news_articles, ticker_mentions, AllTime)

\* C24: a step that returns a graph leaves every graph returned before as
\* it was and writes to neither table; the graph it returns is the one the
\* tables give for some window.
C24_SnapshotsImmutable ==
    [][ /\ Len(snapshots') >= Len(snapshots)
        /\ \A i \in 1..Len(snapshots) : snapshots'[i] = snapshots[i]
        /\ snapshots' # snapshots =>
              /\ news_articles' = news_articles
              /\ ticker_mentions' = ticker_mentions
              /\ \E win \in Windows :
                    snapshots'[Len(snapshots')] =
                        build(news_articles, ticker_mentions, win)
      ]_vars

\* Two graphs have been returned, the second for a later window than the
\* first, and they differ.
C24_Witness ==
    /\ Len(snapshots) = 2
    /\ snapshots[1] = build(news_articles, ticker_mentions, [lo |-> 1, hi |-> 2])
    /\ snapshots[2] = build(news_articles, ticker_mentions, [lo |-> 2, hi |-> 3])
    /\ snapshots[1] # snapshots[2]
    /\ snapshots[1] # EmptyGraph

\* The rows of a result, with how often each occurs.
rows_of(seq) ==
    [x \in Range(seq) |-> Cardinality({i \in DOMAIN seq : seq[i] = x})]

\* Every event of the store beside each of its own mention rows, and beside
\* no other row: the columns title, timestamp, ticker of these pairs.
RECURSIVE own_mentions(_, _)
own_mentions(P, mention_bag) ==
    IF P = {} THEN EmptyBag
    ELSE LET p == CHOOSE x \in P : TRUE
         IN  (row_of(p) :> CopiesIn(p[2], mention_bag))
                 (+) own_mentions(P \ {p}, mention_bag)

events_with_mentions ==
    own_mentions({p \in news_articles \X BagToSet(ticker_mentions) :
                     p[1].article_id = p[2].article_id}, ticker_mentions)

ascending(seq) ==
    \A i \in 1..(Len(seq) - 1) : seq[i].timestamp <= seq[i + 1].timestamp

store_untouched ==
    news_articles' = news_articles /\ ticker_mentions' = ticker_mentions

\* C25 as claimed: a run of the query returns every event beside exactly
\* its own mention rows, in ascending order of timestamp, and changes
\* nothing in the store.
C25_QueryReturnsAll ==
    [][ df' # df =>
          /\ rows_of(df') = events_with_mentions
          /\ ascending(df')
          /\ store_untouched
      ]_vars

\* C25 amended: a run of the query returns the first LIMIT rows, in
\* ascending order of timestamp, of the events beside their own mention
\* rows (all of them when there are no more than LIMIT), and changes
\* nothing in the store.
C25_QueryReturnsFirstRows ==
    [][ df' # df =>
          LET rest == events_with_mentions (-) rows_of(df')
          IN  /\ rows_of(df') \sqsubseteq events_with_mentions
              /\ Len(df') = (IF BagCardinality(events_with_mentions) < LIMIT
                             THEN BagCardinality(events_with_mentions) ELSE LIMIT)
              /\ ascending(df')
              /\ \A y \in BagToSet(rest) : y.timestamp >= df'[Len(df')].timestamp
              /\ store_untouched
      ]_vars

\* The query has returned LIMIT rows of a store that joins to more, from
\* two events of different timestamps.
C25_Witness ==
    /\ Len(df) = LIMIT
    /\ BagCardinality(events_with_mentions) > LIMIT
    /\ df[1].timestamp < df[LIMIT].timestamp
    /\ rows_of(df) \sqsubseteq events_with_mentions

\* A poller at a suspension point after the shutdown signal stays there or
\* stops; a stopped poller stays stopped and writes nothing more.
winds_down(w) ==
    /\ loop[w] \in Waits => loop'[w] \in {loop[w], "stopped"}
    /\ loop[w] = "stopped" =>
           /\ loop'[w] = "stopped"
           /\ pc'[w] = pc[w]
           /\ left'[w] = left[w]

\* C26: once the global shutdown signal is raised, every poll loop that is
\* at a suspension point (the wait for a response, the rate-limit wait, the
\* sleep between cycles) goes nowhere from it but to its end, and a loop
\* that has stopped writes nothing more to the store.
C26_StopsAtSuspension ==
    [][shutdown => \A w \in Writers : winds_down(w)]_vars

\* C27: no request waits for ever, and a request that timed out leaves its
\* poll loop alive: the timeout is a failure of that cycle only.
C27_TimeoutTransient ==
    \A w \in Writers :
        /\ loop[w] # "hung"
        /\ failure[w] = "timeout" => loop[w] # "stopped"

\* C28: a poll loop that has an empty result in hand is in a cycle whose
\* fetch succeeded: a failed fetch never looks to it like a quiet one.
C28_FailedCycleDistinguishable ==
    \A w \in Writers :
        observed[w] = "nothing" => failure[w] = "none"

\* The posts that were in the listing before the stream was opened.
pre_existing(post) ==
    post.id <= subscribed_at

C29_SkipCase ==
    /\ running_def = stream_posts_original
    /\ subscribed_at > 0
    /\ yielded # <<>>

\* The mention rows a save pass writes for the headline matched, when it
\* is the headline of the article at "u1".
rows_written ==
    mention_rows(hash_id("u1"), m_mentions)

C31_PageFailureIsolated ==
    (f_pc = "returned" /\ requested # <<>>) =>
        /\ requested[Len(requested)].status = HTTP_OK
        /\ \A k \in DOMAIN requested :
               \A i \in 1..requested[k].n :
                   \E j \in DOMAIN all_articles :
                       all_articles[j] = [page |-> requested[k].page, index |-> i]

\* The end of a search of latest_tweets, as poll_twitter's step.
search_ends ==
    /\ loop["twitter"] = "awaiting"
    /\ <<loop["twitter"], retried, failure["twitter"]>>' #
           <<loop["twitter"], retried, failure["twitter"]>>

\* C32: latest_tweets searches again only after the first NotFound of the
\* call, and once: a search that was the retry is never followed by another
\* search of the same call, and a second NotFound ends the poll loop.
C32_RetryOnce ==
    [][search_ends =>
          /\ retried => loop'["twitter"] # "awaiting"
          /\ loop'["twitter"] = "awaiting" => (~retried /\ retried')
          /\ failure'["twitter"] = "token_expired_again" =>
                 (retried /\ loop'["twitter"] = "stopped")]_vars

\* The retried search has raised NotFound too.
C32_Witness ==
    /\ failure["twitter"] = "token_expired_again"
    /\ loop["twitter"] = "stopped"

\* The loop positions in which a poller fetches.
Fetching ==
    {"awaiting", "feeds"}

\* Poller w keeps the order fetch, save, sleep: it starts a fetch only
\* from the start or a sleep and with no save in hand, it saves only what
\* a fetch has brought, and it leaves a save only for the sleep.
cycle_order(w) ==
    /\ (loop'[w] \in Fetching /\ loop[w] \notin Fetching) =>
           (loop[w] \in {"start", "sleep", "backoff"} /\ pc[w] = "idle")
    /\ (loop'[w] = "save" /\ loop[w] # "save") => loop[w] \in Fetching
    /\ (loop[w] = "save" /\ loop'[w] # "save") =>
           (loop'[w] = "sleep" /\ pc'[w] = "idle")

C33_CycleOrder ==
    [][\A w \in Writers : cycle_order(w)]_vars

C33_NextCycleStarts ==
    \A w \in Writers :
        (loop[w] = "sleep") ~> (loop[w] \in Fetching)

\* C33: every poller repeats fetch, save, sleep in that order, a fetch never
\* starting before the save of the cycle before is over and its sleep has
\* ended; and a poller that sleeps after a cycle always starts another.
C33_Cadence ==
    C33_CycleOrder /\ C33_NextCycleStarts

\* C34: every ticker_mentions row refers to an id that has a row in
\* news_articles, and its ticker is a symbol of the watch-list.
C34_ReferentialIntegrity ==
    \A m \in BagToSet(ticker_mentions) :
        /\ \E r \in news_articles : r.article_id = m.article_id
        /\ m.ticker \in AllTickers

\* Two writers have stored events, one of them with two mention rows, and
\* no save is in hand.
C34_Witness ==
    /\ Cardinality(news_articles) >= 2
    /\ Cardinality(BagToSet(ticker_mentions)) >= 3
    /\ \A w \in Writers : pc[w] = "idle"

\* The set of tickers poller w matches in a text.
matched_by(w, text) ==
    Range(mentions_of(text, watchlist_of(w)))

\* C35: the three pollers match the same set of tickers in every text.
C35_SharedWatchlist ==
    "pollers" \in m_done =>
        \A w1 \in Writers, w2 \in Writers :
            matched_by(w1, m_title) = matched_by(w2, m_title)

\* The tickers of the ticker_mentions rows of an id.
mentioned(id) ==
    { tk \in AllTickers : mention_copies(id, tk) >= 1 }

\* C36: once no save pass is in hand, the tickers in the ticker_mentions
\* rows of every stored event are those the matcher found in the title the
\* event was stored with, whatever passes came after the one that stored
\* it, a pass that brought the id again under another title included.
C36_MentionsOfFirstTitle ==
    (\A w \in Writers : pc[w] = "idle") =>
        \A r \in news_articles : mentioned(r.article_id) = expected[r.article_id]

\* The step in which poll_twitter receives the rate-limit signal.
rate_limited ==
    /\ loop["twitter"] = "awaiting"
    /\ loop'["twitter"] # "awaiting"
    /\ failure'["twitter"] = "rate_limit"

\* C37: the step that receives the rate-limit signal writes nothing and
\* puts the loop into its backoff sleep; the backoff ends in a new search,
\* not in the sleep between cycles; and a search that brings tweets is
\* followed by their save, which ends only when every tweet has been taken.
C37_RateLimitedCycle ==
    [][/\ rate_limited =>
              /\ loop'["twitter"] = "backoff"
              /\ news_articles' = news_articles
              /\ ticker_mentions' = ticker_mentions
       /\ (loop["twitter"] = "backoff" /\ loop'["twitter"] # "backoff") =>
              (loop'["twitter"] = "awaiting" /\ pc["twitter"] = "idle")
       /\ (loop["twitter"] = "save" /\ loop'["twitter"] # "save") =>
              (loop'["twitter"] = "sleep" /\ left["twitter"] = 0)]_vars

\* poll_twitter sleeps out a rate limit it met after another poller had
\* stored an event.
C37_Witness ==
    /\ loop["twitter"] = "backoff"
    /\ failure["twitter"] = "rate_limit"
    /\ news_articles # {}

\* C38: what Twitter's save_to_db returns, and poll_twitter adds to
\* `stored`, is the number of rows the pass added to news_articles: tweets
\* it skipped and duplicates are not in it.
C38_StoredCountsInserts ==
    (pc["twitter"] = "idle" /\ passes["twitter"] >= 1) =>
        count["twitter"] = pass_added["twitter"]

\* A pass of Twitter's save_to_db has stored a tweet and met it again.
C38_Witness ==
    /\ pc["twitter"] = "idle"
    /\ passes["twitter"] >= 1
    /\ pass_added["twitter"] = 1
    /\ pass_d["twitter"] >= 1

====
